---- MODULE Spec2Model ----
\* A model of hdmf/container.py: the container tree (parent / children /
\* modified), the generated field setters, the Data buffer and the field-list
\* merge that runs when a class is declared.
EXTENDS Integers, Sequences, FiniteSets, TLC

\* ---------------------------------------------------------------- universe

\* Instances of (subclasses of) Container, instances of Data, and Proxy
\* objects.  isinstance(x, Container) is x \in Containers and
\* isinstance(x, AbstractContainer) is x \in Objs.
Containers == {"c1", "c2"}

Datas == {"d1"}

Objs == Containers \cup Datas

Proxies == {"q1"}

None == "None"

\* how many candidates a Proxy may hold before the model stops adding more
MaxCand == 1

\* the longest buffer of a Data the model grows
MaxLen == 4

\* the most entries a declared __fields__ tuple has
MaxOwn == 2

\* values handed to a setter: None, a scalar, one object, or a list / tuple /
\* dict of objects (a dict contributes its values, in order)
NoneVal == [k |-> "none", items |-> <<>>]

Absent == [k |-> "absent", items |-> <<>>]

ObjVal(o) == [k |-> "obj", items |-> <<o>>]

SeqVal(kind, s) == [k |-> kind, items |-> s]

VARIABLES
    parent,       \* x.__parent: an object, a Proxy or None
    children,     \* x.__children: a list of objects
    modified,     \* x.__modified
    candidates,   \* the candidates recorded on each Proxy
    fields,       \* x.__field_values: field name -> value, Absent when the key is missing
    data,         \* d.__data of each Data
    klass,        \* the classes declared so far, each with its resolved __fields__
    err,          \* how the last call ended: "ok" or the error it raised
    walk          \* the get_ancestor call in progress or last finished

vars == <<parent, children, modified, candidates, fields, data, klass, err, walk>>

\* ------------------------------------------------------------------- Proxy

\* Proxy.matches(candidate): which objects each placeholder stands for.  A
\* Proxy is matched against containers, never against another Proxy.
matches(q, P) == q = "q1" /\ P \in {"c1", "d1"}

\* Proxy.add_candidate(candidate)
add_candidate(S, q, P) ==
    [S EXCEPT !.candidates[q] = Append(@, P)]

\* ------------------------------------------------------------ set_modified

\* The machine state the methods act on, as one record.
Cur ==
    [parent |-> parent, children |-> children, modified |-> modified,
     candidates |-> candidates, fields |-> fields, err |-> "ok"]

RECURSIVE set_modified_walk(_, _, _, _)
\* set_modified(modified) on self.  seen holds the objects whose frame is on
\* the call stack: coming back to one of them means the recursion never ends
\* by itself and the interpreter stops it with a RecursionError, after every
\* object on the way has had its flag set.
set_modified_walk(S, self, m, seen) ==
    LET S1 == [S EXCEPT !.modified[self] = m]
    IN  IF m /\ S1.parent[self] \in Containers
        THEN IF S1.parent[self] \in seen \cup {self}
             THEN [S1 EXCEPT !.modified[S1.parent[self]] = TRUE,
                             !.err = "RecursionError"]
             ELSE set_modified_walk(S1, S1.parent[self], TRUE, seen \cup {self})
        ELSE S1

\* set_modified that also carries a cleared flag to the parent
set_modified_clears_parent(S, self, m) ==
    IF m
    THEN set_modified_walk(S, self, TRUE, {})
    ELSE IF S.parent[self] \in Containers
         THEN [S EXCEPT !.modified[self] = FALSE,
                        !.modified[S.parent[self]] = FALSE]
         ELSE [S EXCEPT !.modified[self] = FALSE]

set_modified(S, self, m) == set_modified_walk(S, self, m, {})

\* ----------------------------------------------------------- parent setter

\* attach that puts the new child at the head of the list
attach_prepends(S, self, P) ==
    set_modified([S EXCEPT !.children[P] = <<self>> \o @], P, TRUE)

\* parent_container.__children.append(self); parent_container.set_modified()
attach(S, self, P) ==
    set_modified([S EXCEPT !.children[P] = Append(@, self)], P, TRUE)

\* resolve_proxy with the parent set but the child never registered
resolve_proxy_no_append(S, self, P) ==
    IF P = None
    THEN [S EXCEPT !.err = "InvalidReparentError"]
    ELSE IF matches(S.parent[self], P)
         THEN set_modified([S EXCEPT !.parent[self] = P], P, TRUE)
         ELSE add_candidate(S, S.parent[self], P)

\* resolve_proxy that lets None erase the Proxy
resolve_proxy_erases(S, self, P) ==
    IF P = None
    THEN [S EXCEPT !.parent[self] = None]
    ELSE IF matches(S.parent[self], P)
         THEN LET S1 == [S EXCEPT !.parent[self] = P]
              IN  IF P \in Objs
                  THEN attach(S1, self, P)
                  ELSE [S1 EXCEPT !.err = "AttributeError"]
         ELSE add_candidate(S, S.parent[self], P)

\* the branch taken when the current parent is a Proxy
resolve_proxy(S, self, P) ==
    IF P = None
    THEN [S EXCEPT !.err = "InvalidReparentError"]
    ELSE IF matches(S.parent[self], P)
         THEN LET S1 == [S EXCEPT !.parent[self] = P]
              IN  IF P \in Objs
                  THEN attach(S1, self, P)
                  ELSE [S1 EXCEPT !.err = "AttributeError"]
         ELSE add_candidate(S, S.parent[self], P)

\* the branch taken when the current parent is None
assign_unset(S, self, P) ==
    LET S1 == [S EXCEPT !.parent[self] = P]
    IN  IF P \in Containers THEN attach(S1, self, P) ELSE S1

\* parent_setter with the check for a concrete parent left out
parent_setter_reassigns(S, self, P) ==
    IF S.parent[self] = P
    THEN S
    ELSE IF S.parent[self] \in Proxies
         THEN resolve_proxy(S, self, P)
         ELSE assign_unset(S, self, P)

\* parent_setter that overwrites a Proxy the new parent does not match
parent_setter_overwrites(S, self, P) ==
    IF S.parent[self] = P
    THEN S
    ELSE IF S.parent[self] # None
         THEN IF S.parent[self] \in Objs
              THEN [S EXCEPT !.err = "ReparentError"]
              ELSE IF P # None /\ ~matches(S.parent[self], P)
                   THEN [S EXCEPT !.parent[self] = P]
                   ELSE resolve_proxy(S, self, P)
         ELSE assign_unset(S, self, P)

\* parent_setter without the identity check of its first lines
parent_setter_no_identity(S, self, P) ==
    IF S.parent[self] # None
    THEN IF S.parent[self] \in Objs
         THEN [S EXCEPT !.err = "ReparentError"]
         ELSE resolve_proxy(S, self, P)
    ELSE assign_unset(S, self, P)

\* AbstractContainer.parent (setter)
parent_setter(S, self, P) ==
    IF S.parent[self] = P
    THEN S
    ELSE IF S.parent[self] # None
         THEN IF S.parent[self] \in Objs
              THEN [S EXCEPT !.err = "ReparentError"]
              ELSE resolve_proxy(S, self, P)
         ELSE assign_unset(S, self, P)

\* add_child that lists the child itself, whoever owns it
add_child_appends(S, self, child) ==
    IF child # None
    THEN [S EXCEPT !.children[self] = Append(@, child)]
    ELSE S

\* AbstractContainer.add_child(child)
add_child(S, self, child) ==
    IF child # None
    THEN IF S.parent[child] \notin Objs
         THEN parent_setter(S, child, self)
         ELSE S
    ELSE S

\* ------------------------------------------------------------------ fields

\* o.name of each object
NameOf(o) == IF o = "c2" THEN "n2" ELSE "n1"

\* the field descriptors of the class of each object: the class of c1 declares
\* a plain field, a child field and a child field with a required name; the
\* classes of c2 and of d1 declare a plain field only
FieldNames == {"plain", "kid", "named"}

FieldsOf(o) == IF o = "c1" THEN FieldNames ELSE {"plain"}

IsChild(f) == f \in {"kid", "named"}

RequiredName(f) == IF f = "named" THEN "n1" ELSE None

\* setter without the already-set check
setter_overwrites(S, self, name, val) ==
    IF val = NoneVal
    THEN S
    ELSE [S EXCEPT !.fields[self][name] = val]

\* AbstractContainer._setter.setter
setter(S, self, name, val) ==
    IF val = NoneVal
    THEN S
    ELSE IF S.fields[self][name] # Absent
         THEN [S EXCEPT !.err = "AlreadySetError"]
         ELSE [S EXCEPT !.fields[self][name] = val]

\* Container._setter.container_setter (required_name)
required_name_setter(S, self, name, val) ==
    IF val # NoneVal /\ RequiredName(name) # None
       /\ NameOf(val.items[1]) # RequiredName(name)
    THEN [S EXCEPT !.err = "NamingConstraintError"]
    ELSE setter(S, self, name, val)

RECURSIVE adopt_each(_, _, _)
\* for v in val: if not isinstance(v.parent, Container): v.parent = self
adopt_each(S, self, vs) ==
    IF vs = <<>> \/ S.err # "ok"
    THEN S
    ELSE LET v == Head(vs)
             S1 == IF S.parent[v] \notin Containers
                   THEN parent_setter(S, v, self)
                   ELSE S
         IN  adopt_each(S1, self, Tail(vs))

\* child_setter that stores the value and adopts nothing
child_setter_no_adopt(S, self, name, val) ==
    required_name_setter(S, self, name, val)

\* Container._setter.container_setter (child)
child_setter(S, self, name, val) ==
    LET S1 == required_name_setter(S, self, name, val)
    IN  IF S1.err # "ok" \/ val = NoneVal
        THEN S1
        ELSE adopt_each(S1, self, val.items)

\* the setter generated for field name of self's class
field_setter(S, self, name, val) ==
    IF self \in Containers
    THEN IF IsChild(name)
         THEN child_setter(S, self, name, val)
         ELSE required_name_setter(S, self, name, val)
    ELSE setter(S, self, name, val)

\* ----------------------------------------------------------------- actions

\* the tree part of a state S becomes the next state
Commit(S) ==
    /\ parent' = S.parent
    /\ children' = S.children
    /\ modified' = S.modified
    /\ candidates' = S.candidates
    /\ fields' = S.fields
    /\ err' = S.err

CandRoom(S) == \A q \in Proxies : Len(S.candidates[q]) <= MaxCand

\* x.parent = P
SetParent(x, P) ==
    /\ CandRoom(parent_setter(Cur, x, P))
    /\ Commit(parent_setter(Cur, x, P))
    /\ UNCHANGED <<data, klass, walk>>

\* x.set_modified(m)
SetModified(x, m) ==
    /\ Commit(set_modified(Cur, x, m))
    /\ UNCHANGED <<data, klass, walk>>

\* x.add_child(child)
AddChild(x, c) ==
    /\ CandRoom(add_child(Cur, x, c))
    /\ Commit(add_child(Cur, x, c))
    /\ UNCHANGED <<data, klass, walk>>

\* x.f = val
SetField(x, f, val) ==
    /\ CandRoom(field_setter(Cur, x, f, val))
    /\ Commit(field_setter(Cur, x, f, val))
    /\ UNCHANGED <<data, klass, walk>>

\* ------------------------------------------------------------ get_ancestor

\* the type tags a search can ask for
TypeTags == {"A", "B"}

\* getattr(o, o._data_type_attr): the type tag of each object
TypeOf(o) == IF o \in Containers THEN "A" ELSE "B"

\* no get_ancestor call has been made yet.  odd tells whether the loop has
\* made an odd number of passes, so that a pass landing on the object it
\* started from is still a step of the search
Idle ==
    [pc |-> "idle", self |-> None, t |-> None, p |-> None, ret |-> None,
     odd |-> FALSE]

\* x.get_ancestor(data_type=t) up to the first test of the loop: without a
\* type the parent is returned at once, otherwise p starts at the parent
GetAncestorCall(x, t) ==
    /\ walk.pc # "loop"
    /\ walk' = IF t = None
               THEN [pc |-> "done", self |-> x, t |-> t, p |-> parent[x],
                     ret |-> parent[x], odd |-> FALSE]
               ELSE [pc |-> "loop", self |-> x, t |-> t, p |-> parent[x],
                     ret |-> None, odd |-> FALSE]
    /\ err' = "ok"
    /\ UNCHANGED <<parent, children, modified, candidates, fields, data, klass>>

\* one pass of `while p is not None`.  A Proxy has neither _data_type_attr
\* nor parent: reading the type tag of one raises AttributeError.
GetAncestorStep ==
    /\ walk.pc = "loop"
    /\ IF walk.p = None
       THEN walk' = [walk EXCEPT !.pc = "done", !.ret = None] /\ err' = "ok"
       ELSE IF walk.p \in Proxies
            THEN /\ walk' = [walk EXCEPT !.pc = "done", !.ret = None]
                 /\ err' = "AttributeError"
            ELSE IF TypeOf(walk.p) = walk.t
                 THEN walk' = [walk EXCEPT !.pc = "done", !.ret = walk.p]
                      /\ err' = "ok"
                 ELSE /\ walk' = [walk EXCEPT !.p = parent[walk.p],
                                              !.odd = ~walk.odd]
                      /\ err' = "ok"
    /\ UNCHANGED <<parent, children, modified, candidates, fields, data, klass>>

\* ------------------------------------------------------------- Data buffer

\* the backing values a Data is built on: a list, a numpy ndarray, an
\* h5py.Dataset, or something else append and extend do not know (a tuple)
BufferKinds == {"list", "ndarray", "h5py", "tuple"}

Elems == {1, 2, 3}

\* append that treats every backing value as growable
append_any(buf, arg) ==
    [buf |-> [buf EXCEPT !.elems = Append(@, arg)], err |-> "ok"]

\* Data.append(arg)
append(buf, arg) ==
    IF buf.kind = "list"
    THEN [buf |-> [buf EXCEPT !.elems = Append(@, arg)], err |-> "ok"]
    ELSE IF buf.kind = "ndarray"
         THEN [buf |-> [kind |-> "ndarray", elems |-> buf.elems \o <<arg>>],
               err |-> "ok"]
         ELSE IF buf.kind = "h5py"
              THEN [buf |-> [buf EXCEPT !.elems = Append(@, arg)], err |-> "ok"]
              ELSE [buf |-> buf, err |-> "UnsupportedMutationError"]

\* extend that puts the new elements in front of a list
extend_prepends(buf, arg) ==
    IF buf.kind = "list"
    THEN [buf |-> [buf EXCEPT !.elems = arg \o @], err |-> "ok"]
    ELSE IF buf.kind = "tuple"
         THEN [buf |-> buf, err |-> "UnsupportedMutationError"]
         ELSE [buf |-> [buf EXCEPT !.elems = @ \o arg], err |-> "ok"]

\* Data.extend(arg)
extend(buf, arg) ==
    IF buf.kind = "list"
    THEN [buf |-> [buf EXCEPT !.elems = @ \o arg], err |-> "ok"]
    ELSE IF buf.kind = "ndarray"
         THEN [buf |-> [kind |-> "ndarray", elems |-> buf.elems \o arg],
               err |-> "ok"]
         ELSE IF buf.kind = "h5py"
              THEN [buf |-> [buf EXCEPT !.elems = @ \o arg], err |-> "ok"]
              ELSE [buf |-> buf, err |-> "UnsupportedMutationError"]

\* Data.__len__
len(buf) == Len(buf.elems)

\* Data.__getitem__ with an integer index, counted from 0
getitem(buf, i) == buf.elems[i + 1]

\* d.append(x)
DataAppend(d, x) ==
    /\ len(append(data[d], x).buf) <= MaxLen
    /\ data' = [data EXCEPT ![d] = append(data[d], x).buf]
    /\ err' = append(data[d], x).err
    /\ UNCHANGED <<parent, children, modified, candidates, fields, klass, walk>>

\* d.extend(xs)
DataExtend(d, xs) ==
    /\ len(extend(data[d], xs).buf) <= MaxLen
    /\ data[d].kind = "h5py" => xs # <<>>
    /\ data' = [data EXCEPT ![d] = extend(data[d], xs).buf]
    /\ err' = extend(data[d], xs).err
    /\ UNCHANGED <<parent, children, modified, candidates, fields, klass, walk>>

\* ------------------------------------------------------------ field merge

\* the classes of the module, and the names user classes are declared under
BaseClasses == {"AbstractContainer", "Container", "Data"}

UserClasses == {"T1", "T2"}

Classes == BaseClasses \cup UserClasses

Undefined == [defined |-> FALSE, base |-> None, fields |-> <<>>]

\* an entry of a declared __fields__ tuple: a bare name, or a dict, which may
\* lack its 'name' key
Str(n) == [form |-> "str", name |-> n]

Dict(n) == [form |-> "dict", name |-> n]

FieldSpecs == {Str("a"), Str("b"), Dict("a"), Dict("b"), Dict(None)}

\* what a class statement says about __fields__: nothing (the attribute is
\* then the base's own tuple object), a tuple of entries, or a list
Inherit == [form |-> "inherit", items |-> <<>>]

SeqsUpTo(S, n) == UNION {[1..k -> S] : k \in 0..n}

Declarations ==
    {Inherit}
    \cup {[form |-> "tuple", items |-> s] : s \in SeqsUpTo(FieldSpecs, MaxOwn)}
    \cup {[form |-> "list", items |-> <<Str("a")>>]}

RECURSIVE issubclass(_, _, _)
\* issubclass(c, target) along the base links of the declared classes
issubclass(K, c, target) ==
    IF c = target
    THEN TRUE
    ELSE IF c = None \/ ~K[c].defined
         THEN FALSE
         ELSE issubclass(K, K[c].base, target)

\* AbstractContainer._check_field_spec, and the name the entry resolves to
check_field_spec(f) == IF f.form = "dict" THEN f ELSE Dict(f.name)

\* lines 86-90: the tuple the loop of __gather_fields reads
merged_fields(K, bases, decl) ==
    LET last == bases[Len(bases)]
    IN  IF Len(bases) > 0 /\ K["Container"].defined
           /\ issubclass(K, last, "Container") /\ decl # Inherit
        THEN [i \in 1..Len(K[last].fields) |-> Str(K[last].fields[i])]
             \o decl.items
        ELSE IF decl = Inherit
             THEN [i \in 1..Len(K[bases[1]].fields) |-> Str(K[bases[1]].fields[i])]
             ELSE decl.items

\* AbstractContainer.__gather_fields: the resolved __fields__ of the class, or
\* the error that stops the class statement
gather_fields(K, bases, decl) ==
    IF decl.form = "list"
    THEN [err |-> "TypeError", fields |-> <<>>]
    ELSE LET fs == merged_fields(K, bases, decl)
         IN  IF \E i \in 1..Len(fs) : check_field_spec(fs[i]).name = None
             THEN [err |-> "SchemaDefinitionError", fields |-> <<>>]
             ELSE [err |-> "ok",
                   fields |-> [i \in 1..Len(fs) |-> check_field_spec(fs[i]).name]]

\* class T(base): __fields__ = decl
DefineClass(T, base, decl) ==
    /\ ~klass[T].defined
    /\ klass[base].defined
    /\ LET r == gather_fields(klass, <<base>>, decl)
       IN  /\ err' = r.err
           /\ klass' = IF r.err = "ok"
                       THEN [klass EXCEPT ![T] = [defined |-> TRUE, base |-> base,
                                                  fields |-> r.fields]]
                       ELSE klass
    /\ UNCHANGED <<parent, children, modified, candidates, fields, data, walk>>

\* ---------------------------------------------------------- specifications

\* the values a child field is given in the tree specification
KidValues ==
    {NoneVal} \cup {ObjVal(o) : o \in Objs}
    \cup {SeqVal(kind, <<a, b>>) : kind \in {"list"}, a \in Objs, b \in Objs}

\* the values each field is given in the field specification
ValuesFor(f) ==
    IF f = "plain"
    THEN {NoneVal, SeqVal("scalar", <<"v1">>), SeqVal("scalar", <<"v2">>)}
    ELSE IF f = "kid"
         THEN KidValues \cup {SeqVal("dict", <<a, b>>) : a \in {"c2"}, b \in Objs}
         ELSE {NoneVal} \cup {ObjVal(o) : o \in Objs}

\* the objects as __new__ and __init__ leave them, built without a parent
\* argument (parent=P at construction is the assignment x.parent = P)
InitTree ==
    /\ parent = [x \in Objs |-> None]
    /\ children = [x \in Objs |-> <<>>]
    /\ modified = [x \in Objs |-> TRUE]
    /\ candidates = [q \in Proxies |-> <<>>]
    /\ fields = [x \in Objs |-> [f \in FieldNames |-> Absent]]
    /\ err = "ok"
    /\ walk = Idle

InitData == data = [d \in Datas |-> [kind |-> "list", elems |-> <<>>]]

InitClasses ==
    klass = [c \in Classes |->
               IF c \in BaseClasses
               THEN [defined |-> TRUE,
                     base |-> IF c = "AbstractContainer" THEN None
                              ELSE "AbstractContainer",
                     fields |-> <<>>]
               ELSE Undefined]

\* the container tree: parent assignments, dirty flags, add_child and sets
\* of a child field
Init == InitTree /\ InitData /\ InitClasses

Next ==
    \/ \E x \in Objs, P \in Objs \cup Proxies \cup {None} : SetParent(x, P)
    \/ \E x \in Objs, m \in BOOLEAN : SetModified(x, m)
    \/ \E x \in Objs, c \in Objs \cup {None} : AddChild(x, c)
    \/ \E val \in KidValues : SetField("c1", "kid", val)

Spec == Init /\ [][Next]_vars

\* the generated setters of every field of every object
NextFields ==
    \E x \in Objs : \E f \in FieldsOf(x) : \E val \in ValuesFor(f) :
        SetField(x, f, val)

SpecFields == Init /\ [][NextFields]_vars

\* Data buffers of every backing kind
InitBuffers ==
    /\ InitTree
    /\ InitClasses
    /\ data \in [Datas -> [kind : BufferKinds, elems : SeqsUpTo(Elems, 1)]]

NextData ==
    \/ \E d \in Datas, x \in Elems : DataAppend(d, x)
    \/ \E d \in Datas, xs \in SeqsUpTo(Elems, 2) : DataExtend(d, xs)

SpecData == InitBuffers /\ [][NextData]_vars

\* parent assignments and ancestor searches; a search runs to its end before
\* the next call starts, and each pass of its loop is taken in turn
NextWalk ==
    \/ /\ walk.pc # "loop"
       /\ \E x \in Objs, P \in Objs \cup Proxies \cup {None} : SetParent(x, P)
    \/ \E x \in Objs, t \in TypeTags \cup {None} : GetAncestorCall(x, t)
    \/ GetAncestorStep

SpecWalk == Init /\ [][NextWalk]_vars /\ WF_vars(GetAncestorStep)

\* class declarations
NextSchema ==
    \E T \in UserClasses, base \in Classes, decl \in Declarations :
        DefineClass(T, base, decl)

SpecSchema == Init /\ [][NextSchema]_vars

\* ------------------------------------------------------------------ claims

ParentArgs == Objs \cup Proxies \cup {None}

Count(s, x) == Cardinality({i \in 1..Len(s) : s[i] = x})

RECURSIVE UpFrom(_, _, _)
\* acc and everything reached from it by parent links that lead into via
UpFrom(par, via, acc) ==
    LET nxt == acc \cup {par[y] : y \in {z \in acc : par[z] \in via}}
    IN  IF nxt = acc THEN acc ELSE UpFrom(par, via, nxt)

\* C1: when x's parent is a container, x.parent = X for any other X (None, a
\* Proxy, another container) fails with the reparent error and changes no
\* parent, no children list and no modified flag; so over every step a parent
\* that is a container stays the same.
C1_ReparentRejected ==
    /\ [](\A x \in Objs, X \in ParentArgs :
            (parent[x] \in Objs /\ X # parent[x])
            => LET S == parent_setter(Cur, x, X)
               IN  /\ S.err = "ReparentError"
                   /\ S.parent = parent
                   /\ S.children = children
                   /\ S.modified = modified)
    /\ [][\A x \in Objs : parent[x] \in Objs => parent'[x] = parent[x]]_vars

\* a parent assignment has just been refused on an owned container (no field
\* set has run, so the error came from a parent assignment)
C1_Witness ==
    /\ err = "ReparentError"
    /\ fields["c1"]["kid"] = Absent
    /\ \E x \in Objs : parent[x] \in Containers

\* C2: every container is in at most one children list, at most once, and
\* the container whose list holds it is its parent.
C2_Ownership ==
    \A x \in Objs, p \in Objs :
        Count(children[p], x) > 0
        => /\ Count(children[p], x) = 1
           /\ parent[x] = p
           /\ \A p2 \in Objs \ {p} : Count(children[p2], x) = 0

\* two containers each own a child, one of them through the child field
C2_Witness ==
    /\ fields["c1"]["kid"] # Absent
    /\ children["c1"] # <<>>
    /\ \E p \in Objs \ {"c1"} : children[p] # <<>>

C4_ProxyCandidate ==
    \A x \in Objs, P \in ParentArgs \ {None} :
        (parent[x] \in Proxies /\ P # parent[x] /\ ~matches(parent[x], P))
        => LET S == parent_setter(Cur, x, P)
           IN  /\ S.err = "ok"
               /\ S.parent = parent
               /\ S.candidates = [candidates EXCEPT ![parent[x]] = Append(@, P)]
               /\ S.children = children
               /\ S.modified = modified

\* a candidate is recorded on a Proxy that is still somebody's parent
C4_Witness ==
    /\ err = "ok"
    /\ \E x \in Objs : parent[x] \in Proxies /\ candidates[parent[x]] # <<>>

\* C5: from UNSET, x.parent = P makes P the parent; a container P (Container
\* or Data) gets x appended to its children and is marked modified; a Proxy P
\* changes no children list and no modified flag.
C5_AssignFromUnset ==
    \A x \in Objs, P \in ParentArgs \ {None} :
        parent[x] = None
        => LET S == parent_setter(Cur, x, P)
           IN  /\ S.parent[x] = P
               /\ P \in Objs => /\ S.children[P] = Append(children[P], x)
                                /\ S.modified[P]
               /\ P \in Proxies => /\ S.children = children
                                   /\ S.modified = modified

\* the child fields of a, and the values they are given
ChildFields(a) == {f \in FieldsOf(a) : IsChild(f)}

\* b has no owner yet that a set of a child field of a would leave in place
Unowned(b, a) ==
    \/ parent[b] = None
    \/ parent[b] \in Proxies /\ matches(parent[b], a)

\* C6: after a value is assigned through a child field setter on a, every
\* container b in the value has a as its parent, is in a.children, and a is
\* modified.
C6_ChildRegistered ==
    \A a \in Objs : \A f \in ChildFields(a) : \A val \in ValuesFor(f) \ {NoneVal} :
        LET S == field_setter(Cur, a, f, val)
        IN  S.err = "ok"
            => \A i \in 1..Len(val.items) :
                   /\ S.parent[val.items[i]] = a
                   /\ Count(S.children[a], val.items[i]) > 0
                   /\ S.modified[a]

\* C6 as amended: the same for every b of the value that had no owner before
\* the set (its parent was None, or a Proxy that matches a).
C6_UnownedChildRegistered ==
    \A a \in Objs : \A f \in ChildFields(a) : \A val \in ValuesFor(f) \ {NoneVal} :
        LET S == field_setter(Cur, a, f, val)
        IN  S.err = "ok"
            => \A i \in 1..Len(val.items) :
                   Unowned(val.items[i], a)
                   => /\ S.parent[val.items[i]] = a
                      /\ Count(S.children[a], val.items[i]) > 0
                      /\ S.modified[a]

\* a list of two containers has been set as the child field of c1 and both
\* are now its children
C6_Witness ==
    /\ fields["c1"]["kid"] = SeqVal("list", <<"c2", "d1">>)
    /\ children["c1"] = <<"c2", "d1">>
    /\ parent["c2"] = "c1" /\ parent["d1"] = "c1"
    /\ modified["c1"]
    /\ err = "ok"

\* C7: set_modified(True) on x sets the flag of every ancestor of x reached
\* through parents that are containers (Container or Data), stopping only
\* where the parent is None or a Proxy.
C7_DirtyPropagates ==
    \A x \in Objs :
        LET S == set_modified(Cur, x, TRUE)
        IN  \A y \in UpFrom(parent, Objs, {x}) : S.modified[y]

\* C8: once x.f holds a value, every later assignment of a value that is not
\* None raises the already-set error and leaves x.f as it is; assigning None
\* raises nothing and changes nothing.
C8_WriteOnce ==
    \A x \in Objs : \A f \in FieldsOf(x) : \A val \in ValuesFor(f) :
        LET S == field_setter(Cur, x, f, val)
        IN  /\ val = NoneVal => S = Cur
            /\ (val # NoneVal /\ fields[x][f] # Absent)
               => /\ S.err = "AlreadySetError"
                  /\ S.fields = fields

\* the error a second assignment of val to field f ends with
SecondSetError(f, val) ==
    IF RequiredName(f) # None /\ NameOf(val.items[1]) # RequiredName(f)
    THEN "NamingConstraintError"
    ELSE "AlreadySetError"

\* C8 as amended: the later assignment raises the already-set error, or the
\* naming error when the field has a required name the value does not bear,
\* and leaves x.f as it is; assigning None raises nothing and changes nothing.
C8_WriteOnceOrNaming ==
    \A x \in Objs : \A f \in FieldsOf(x) : \A val \in ValuesFor(f) :
        LET S == field_setter(Cur, x, f, val)
        IN  /\ val = NoneVal => S = Cur
            /\ (val # NoneVal /\ fields[x][f] # Absent)
               => /\ S.err = SecondSetError(f, val)
                  /\ S.fields = fields

\* a second assignment to a field that holds a value has just been refused
C8_Witness ==
    /\ err = "AlreadySetError"
    /\ \E x \in Objs : \E f \in FieldsOf(x) : fields[x][f] # Absent

\* the arguments extend is given
ExtendArgs == SeqsUpTo(Elems, 2)

Rejected(buf) == [buf |-> buf, err |-> "UnsupportedMutationError"]

DeclaredNames(decl) == [i \in 1..Len(decl.items) |-> decl.items[i].name]

\* C10: the resolved field list of a class declared on a base that uses the
\* field mechanism (a subclass of Container or of Data) is the resolved list
\* of the base followed by the names the class declares, in their order.
C10_MergeOrder ==
    \A T \in UserClasses, base \in Classes, decl \in Declarations :
        (/\ ~klass[T].defined /\ klass[base].defined
         /\ issubclass(klass, base, "Container") \/ issubclass(klass, base, "Data"))
        => LET r == gather_fields(klass, <<base>>, decl)
           IN  r.err = "ok"
               => r.fields = klass[base].fields \o DeclaredNames(decl)

\* C11: assigning x.parent the value it already holds (None, the Proxy or the
\* container) raises nothing and changes no parent, no children list, no
\* modified flag and no candidates.
C11_SameParentNoop ==
    \A x \in Objs : parent_setter(Cur, x, parent[x]) = Cur

\* one object is unattached, one is held by a Proxy and one by a container,
\* and the last call raised nothing
C11_Witness ==
    /\ err = "ok"
    /\ \E x \in Objs : parent[x] = None
    /\ \E x \in Objs : parent[x] \in Proxies
    /\ \E x \in Objs : parent[x] \in Objs /\ Count(children[parent[x]], x) = 1

\* C12: when x.parent is a Proxy, x.parent = None fails with the
\* invalid-reparent error and leaves the Proxy in place: no parent, candidate,
\* children list or modified flag changes.
C12_PendingProxyKept ==
    \A x \in Objs :
        parent[x] \in Proxies =>
            parent_setter(Cur, x, None) = [Cur EXCEPT !.err = "InvalidReparentError"]

\* the erasure has just been refused and the Proxy is still there
C12_Witness ==
    /\ err = "InvalidReparentError"
    /\ \E x \in Objs : parent[x] \in Proxies

\* C13: set_modified(False) on x clears x's own flag and nothing else; the
\* flags of its ancestors and descendants stay as they were.
C13_ClearIsLocal ==
    \A x \in Objs :
        set_modified(Cur, x, FALSE) = [Cur EXCEPT !.modified[x] = FALSE]

\* a chain root <- mid <- leaf whose leaf was cleared while mid and root are
\* still marked
C13_Witness ==
    \E leaf, mid, root \in Objs :
        /\ parent[leaf] = mid /\ parent[mid] = root /\ parent[root] = None
        /\ ~modified[leaf] /\ modified[mid] /\ modified[root]
        /\ err = "ok"

\* C14: on a Data backed by a list of length n, append(x) raises nothing and
\* gives length n+1 with x at index n and the elements 0..n-1 as before;
\* extend(xs) raises nothing and gives length n+len(xs) with xs at the tail
\* in order and the earlier elements as before.
C14_ListGrows ==
    \A d \in Datas :
        data[d].kind = "list" =>
            LET n == len(data[d])
            IN  /\ \A x \in Elems :
                    LET r == append(data[d], x)
                    IN  /\ r.err = "ok" /\ r.buf.kind = "list"
                        /\ len(r.buf) = n + 1
                        /\ getitem(r.buf, n) = x
                        /\ \A i \in 0..(n - 1) :
                              getitem(r.buf, i) = getitem(data[d], i)
                /\ \A xs \in ExtendArgs :
                    LET r == extend(data[d], xs)
                    IN  /\ r.err = "ok" /\ r.buf.kind = "list"
                        /\ len(r.buf) = n + Len(xs)
                        /\ \A j \in 1..Len(xs) :
                              getitem(r.buf, n + j - 1) = xs[j]
                        /\ \A i \in 0..(n - 1) :
                              getitem(r.buf, i) = getitem(data[d], i)

\* a list that has grown to three elements or more, no two neighbours equal
C14_Witness ==
    /\ err = "ok"
    /\ \E d \in Datas :
          /\ data[d].kind = "list" /\ len(data[d]) >= 3
          /\ getitem(data[d], 0) # getitem(data[d], 1)
          /\ getitem(data[d], 1) # getitem(data[d], 2)

\* C16: when the setter of a child field of a, not yet set, is given a value v
\* whose parent is already a container other than a (a Container or a Data),
\* the set raises nothing, stores v in the field, and changes no parent and no
\* children list.
C16_OwnedIsReference ==
    \A a \in Containers : \A f \in ChildFields(a) : \A v \in Objs :
        (/\ fields[a][f] = Absent
         /\ parent[v] \in Objs \ {a}
         /\ RequiredName(f) \in {None, NameOf(v)})
        => LET S == field_setter(Cur, a, f, ObjVal(v))
           IN  /\ S.err = "ok"
               /\ S.fields[a][f] = ObjVal(v)
               /\ S.parent = parent
               /\ S.children = children

IsPrefix(s, t) == Len(s) <= Len(t) /\ \A i \in 1..Len(s) : t[i] = s[i]

\* C17: over every step, each children list only grows at its tail: the old
\* list is a prefix of the new one.
C17_ChildrenAppendOnly ==
    [][\A p \in Objs : IsPrefix(children[p], children'[p])]_vars

\* a children list that has grown twice
C17_Witness ==
    \E p \in Objs :
        /\ Len(children[p]) = 2
        /\ children[p][1] # children[p][2]
        /\ \A i \in 1..2 : parent[children[p][i]] = p

\* C18: whenever x.parent is a container p (a Container or a Data), x is in
\* p.children.
C18_ParentListsChild ==
    \A x \in Objs :
        parent[x] \in Objs => Count(children[parent[x]], x) > 0

\* C19: no container is its own parent or its own ancestor through parent
\* links.
C19_Forest ==
    \A x \in Objs :
        parent[x] \in Objs => x \notin UpFrom(parent, Objs, {parent[x]})

RECURSIVE NearestFrom(_, _, _)
\* the first container with tag t met from p upward over at most n links;
\* None when the chain ends, at None or at a Proxy, before one is met
NearestFrom(p, t, n) ==
    IF p \notin Objs \/ n = 0
    THEN None
    ELSE IF TypeOf(p) = t THEN p ELSE NearestFrom(parent[p], t, n - 1)

\* C15: x.get_ancestor(t) returns the nearest container on x's parent chain
\* whose type tag is t, None when the chain ends (at None or at a Proxy)
\* without one, and x's parent when t is omitted; it raises nothing and
\* changes no parent, children list, modified flag, candidate or field.
C15_AncestorSearch ==
    [][(walk' # walk /\ walk'.pc = "done")
       => /\ err' = "ok"
          /\ walk'.ret = IF walk'.t = None
                         THEN parent[walk'.self]
                         ELSE NearestFrom(parent[walk'.self], walk'.t,
                                          Cardinality(Objs))
          /\ UNCHANGED <<parent, children, modified, candidates, fields>>]_vars

\* C20: every get_ancestor call that has entered its loop comes to an end.
C20_SearchTerminates ==
    (walk.pc = "loop") ~> (walk.pc = "done")

====
